---------------------------- MODULE Spec2Model ----------------------------
(***************************************************************************)
(* Food tracker bot: the persistence store (src/database.py), the          *)
(* inference client (src/ai_services.py) and the conversation handlers     *)
(* (src/bot.py).                                                           *)
(*                                                                         *)
(* Three specifications share the variables:                               *)
(*   DbSpec  a client calling the methods of Database with any arguments;  *)
(*   AiSpec  a client calling the methods of AIService, the remote service *)
(*           answering each request in any way;                            *)
(*   Spec    the bot: updates dispatched to the handlers of bot.py, which  *)
(*           call the inference client and the store.                      *)
(*                                                                         *)
(* Python dicts are records (a key is present iff it is in the DOMAIN),    *)
(* formatted messages are tuples of their parts, gram values are whole     *)
(* numbers.                                                                *)
(***************************************************************************)
EXTENDS Integers, Sequences, FiniteSets, TLC

VARIABLES
    users,          \* table users: a set of rows
    food_history,   \* table food_history: a set of rows
    seq,            \* sqlite_sequence of food_history (AUTOINCREMENT): last id given
    clock,          \* CURRENT_TIMESTAMP, in whole seconds
    last_add_user,  \* history: the attributes of the last add_user call per user_id
    lastOp,         \* DbSpec: the last call of a Database method and what it returned
    ai,             \* AiSpec: the call of an AIService method in progress
    hs              \* Spec: the handler running in each update slot

vars == <<users, food_history, seq, clock, last_add_user, lastOp, ai, hs>>

---------------------------------------------------------------------------
(* Bounds *)

MaxEntries == 2     \* inserts into food_history in one behaviour
MaxClock == 1       \* seconds the clock advances in one behaviour
MaxLimit == 2       \* largest LIMIT passed to get_user_history

Users == {1, 2}

Profiles ==
    { [username |-> "ann", first_name |-> "Ann", last_name |-> "Lee"],
      [username |-> "anna", first_name |-> "Anna", last_name |-> "Ray"] }

\* food_data dicts handed to add_food_entry by a client of the store
FoodDatas ==
    { [description |-> "rice bowl", calories |-> 300, protein |-> 6,
       carbs |-> 60, fats |-> 2, analysis |-> "balanced"],
      [calories |-> 101, protein |-> 3, carbs |-> 20, fats |-> 1,
       analysis |-> "light"] }

---------------------------------------------------------------------------
(* Python and SQL helpers *)

\* dict.get(key, default)
Get(d, key, default) == IF key \in DOMAIN d THEN d[key] ELSE default

\* Python None, as the result of a method that returns a dict or None
None == [none |-> TRUE]

Min(a, b) == IF a <= b THEN a ELSE b

\* An SQL aggregate's value: NULL, or the rational num/den
NULL == [null |-> TRUE, num |-> 0, den |-> 1]

Cell(n, d) == [null |-> FALSE, num |-> n, den |-> d]

RECURSIVE SumOf(_, _)
SumOf(rows, col) ==
    IF rows = {} THEN 0
    ELSE LET r == CHOOSE x \in rows : TRUE
         IN  r[col] + SumOf(rows \ {r}, col)

\* SUM(col) written as AVG(col)
SqlSum_avg(rows, col) ==
    IF rows = {} THEN NULL ELSE Cell(SumOf(rows, col), Cardinality(rows))

\* SUM(col): NULL over no rows
SqlSum(rows, col) == IF rows = {} THEN NULL ELSE Cell(SumOf(rows, col), 1)

\* AVG(col): NULL over no rows
SqlAvg(rows, col) ==
    IF rows = {} THEN NULL ELSE Cell(SumOf(rows, col), Cardinality(rows))

\* Python `x or 0`: None and 0 both give 0
OrZero(c) == IF c.null \/ c.num = 0 THEN Cell(0, 1) ELSE c

\* Python round(): num/den rounded to the nearest integer, halves to even
RoundHalfEven(num, den) ==
    LET q == num \div den
        r == num % den
    IN  IF 2 * r < den THEN q
        ELSE IF 2 * r > den THEN q + 1
        ELSE IF q % 2 = 0 THEN q ELSE q + 1

\* round(x): a whole number
Round0(c) == RoundHalfEven(c.num, c.den)

\* round(x, 1): one decimal, held in tenths
Round1(c) == RoundHalfEven(10 * c.num, c.den)

---------------------------------------------------------------------------
(* Database (src/database.py) *)

\* INSERT OR IGNORE: an existing row keeps its attributes
add_user_ignore(U, user_id, username, first_name, last_name) ==
    IF \E r \in U : r.user_id = user_id THEN U
    ELSE U \cup {[user_id |-> user_id, username |-> username,
                  first_name |-> first_name, last_name |-> last_name]}

\* add_user without conn.commit(): the row is lost when the connection closes
add_user_uncommitted(U, user_id, username, first_name, last_name) == U

\* INSERT OR REPLACE INTO users: the row with this primary key is replaced
add_user(U, user_id, username, first_name, last_name) ==
    {r \in U : r.user_id # user_id}
        \cup {[user_id |-> user_id, username |-> username,
               first_name |-> first_name, last_name |-> last_name]}

\* INSERT INTO food_history: the new row; foreign keys are not enforced
\* (no PRAGMA foreign_keys), so the owning user need not exist
NewEntry(last_id, now, user_id, food_data) ==
    [id |-> last_id + 1,
     user_id |-> user_id,
     description |-> Get(food_data, "description", ""),
     calories |-> Get(food_data, "calories", 0),
     protein |-> Get(food_data, "protein", 0),
     carbs |-> Get(food_data, "carbs", 0),
     fats |-> Get(food_data, "fats", 0),
     analysis |-> Get(food_data, "analysis", ""),
     created_at |-> now]

\* INSERT OR REPLACE keyed by the user: a user's new entry replaces the old
add_food_entry_replace(F, last_id, now, user_id, food_data) ==
    {r \in F : r.user_id # user_id}
        \cup {NewEntry(last_id, now, user_id, food_data)}

\* INSERT INTO food_history; the method returns nothing
add_food_entry(F, last_id, now, user_id, food_data) ==
    F \cup {NewEntry(last_id, now, user_id, food_data)}

\* dict(zip(columns, row)): the selected columns, without user_id
Columns(r) ==
    [id |-> r.id, description |-> r.description, calories |-> r.calories,
     protein |-> r.protein, carbs |-> r.carbs, fats |-> r.fats,
     analysis |-> r.analysis, created_at |-> r.created_at]

\* The orders ORDER BY created_at DESC allows: rows with equal created_at
\* come in any order
OrderByCreatedAtDesc(rows) ==
    LET n == Cardinality(rows)
    IN  { s \in [1..n -> rows] :
            /\ \A i, j \in 1..n : i # j => s[i] # s[j]
            /\ \A i, j \in 1..n : i < j => s[i].created_at >= s[j].created_at }

\* Every list get_user_history may return
get_user_history(F, user_id, limit) ==
    { [i \in 1..Min(limit, Len(s)) |-> Columns(s[i])] :
        s \in OrderByCreatedAtDesc({r \in F : r.user_id = user_id}) }

\* The SELECT of get_user_stats over rows and the dict built from its row:
\* round(x) gives units, round(x, 1) gives tenths
StatsOf(rows) ==
    [total_entries |-> Cardinality(rows),
     avg_calories |-> Round0(OrZero(SqlAvg(rows, "calories"))),
     avg_protein |-> Round1(OrZero(SqlAvg(rows, "protein"))),
     avg_carbs |-> Round1(OrZero(SqlAvg(rows, "carbs"))),
     avg_fats |-> Round1(OrZero(SqlAvg(rows, "fats"))),
     total_calories |-> Round0(OrZero(SqlSum(rows, "calories"))),
     total_protein |-> Round1(OrZero(SqlSum(rows, "protein"))),
     total_carbs |-> Round1(OrZero(SqlSum(rows, "carbs"))),
     total_fats |-> Round1(OrZero(SqlSum(rows, "fats")))]

\* get_user_stats without the WHERE clause
get_user_stats_all(F, user_id) == StatsOf(F)

\* Averages and totals of the gram columns are in tenths, the entry count and
\* the calories in units
get_user_stats(F, user_id) == StatsOf({r \in F : r.user_id = user_id})

\* DELETE ... WHERE id = ?: the owner is not compared
delete_entry_any(F, user_id, entry_id) ==
    LET hit == {r \in F : r.id = entry_id}
    IN  [rows |-> F \ hit, ret |-> Cardinality(hit) > 0]

\* delete_entry without conn.commit(): the row is back when the connection
\* closes
delete_entry_uncommitted(F, user_id, entry_id) ==
    LET hit == {r \in F : r.id = entry_id /\ r.user_id = user_id}
    IN  [rows |-> F, ret |-> Cardinality(hit) > 0]

\* DELETE ... WHERE user_id = ?: the id is not compared
delete_entry_by_user(F, user_id, entry_id) ==
    LET hit == {r \in F : r.user_id = user_id}
    IN  [rows |-> F \ hit, ret |-> Cardinality(hit) > 0]

\* DELETE ... WHERE id = ? AND user_id = ?; returns rowcount > 0
delete_entry(F, user_id, entry_id) ==
    LET hit == {r \in F : r.id = entry_id /\ r.user_id = user_id}
    IN  [rows |-> F \ hit, ret |-> Cardinality(hit) > 0]

\* SELECT ... WHERE id = ? AND user_id = ?; fetchone()
get_entry(F, user_id, entry_id) ==
    LET hit == {r \in F : r.id = entry_id /\ r.user_id = user_id}
    IN  IF hit # {} THEN Columns(CHOOSE r \in hit : TRUE) ELSE None

---------------------------------------------------------------------------
(* The remote service: what a POST to /v1/messages may bring back *)

\* Texts the model may put in content[0].text when asked for an analysis
ImgFull == "{description: rice bowl, calories: 300, protein: 6, carbs: 60, fats: 2, analysis: balanced}"
TxtFull == "{calories: 101, protein: 3, carbs: 20, fats: 1, analysis: light}"
NoCalories == "{protein: 3, carbs: 20, fats: 1, analysis: light}"
NoFats == "{description: rice bowl, calories: 300, protein: 6, carbs: 60, analysis: balanced}"
OnlyCalories == "{calories: 101, analysis: light}"
NoAnalysis == "{description: rice bowl, calories: 300, protein: 6, carbs: 60, fats: 2}"
EmptyAnalysis == "{calories: 101, protein: 3, carbs: 20, fats: 1, analysis: }"
ErrorObject == "{error: not a food}"
ErrorWithRaw == "{error: not a food, raw_response: I see a bicycle}"
Prose == "Here is the analysis you asked for: about 300 kcal"

AnalysisTexts ==
    {ImgFull, TxtFull, NoCalories, NoFats, OnlyCalories, NoAnalysis,
     EmptyAnalysis, ErrorObject, ErrorWithRaw, Prose}

\* Texts the model may return when asked to describe the image
DescriptionTexts == {"a bowl of rice", "two fried eggs"}

\* json.loads(text): the dict, or JSONDecodeError
JsonLoads(text) ==
    CASE text = ImgFull ->
            [ok |-> TRUE,
             value |-> [description |-> "rice bowl", calories |-> 300,
                        protein |-> 6, carbs |-> 60, fats |-> 2,
                        analysis |-> "balanced"]]
      [] text = TxtFull ->
            [ok |-> TRUE,
             value |-> [calories |-> 101, protein |-> 3, carbs |-> 20,
                        fats |-> 1, analysis |-> "light"]]
      [] text = NoCalories ->
            [ok |-> TRUE,
             value |-> [protein |-> 3, carbs |-> 20, fats |-> 1,
                        analysis |-> "light"]]
      [] text = NoFats ->
            [ok |-> TRUE,
             value |-> [description |-> "rice bowl", calories |-> 300,
                        protein |-> 6, carbs |-> 60, analysis |-> "balanced"]]
      [] text = OnlyCalories ->
            [ok |-> TRUE, value |-> [calories |-> 101, analysis |-> "light"]]
      [] text = NoAnalysis ->
            [ok |-> TRUE,
             value |-> [description |-> "rice bowl", calories |-> 300,
                        protein |-> 6, carbs |-> 60, fats |-> 2]]
      [] text = EmptyAnalysis ->
            [ok |-> TRUE,
             value |-> [calories |-> 101, protein |-> 3, carbs |-> 20,
                        fats |-> 1, analysis |-> ""]]
      [] text = ErrorObject ->
            [ok |-> TRUE, value |-> [error |-> <<"not a food">>]]
      [] text = ErrorWithRaw ->
            [ok |-> TRUE,
             value |-> [error |-> <<"not a food">>,
                        raw_response |-> "I see a bicycle"]]
      [] OTHER -> [ok |-> FALSE, value |-> [none |-> TRUE]]

EmptyDict == [k \in {} |-> ""]

\* The request raised (a timeout, a connection error): no response object
Raised(exc) == [kind |-> "exception", exc |-> exc]

\* A response whose body is the JSON object data
JsonResponse(status, data, text) ==
    [kind |-> "http", status_code |-> status, json |-> TRUE, data |-> data,
     text |-> text]

\* A response whose body is not JSON: response.json() raises
RawResponse(status, text) ==
    [kind |-> "http", status_code |-> status, json |-> FALSE,
     data |-> EmptyDict, text |-> text]

Exceptions == {Raised("ReadTimeout")}

\* Non-200 answers: an error object with a message, a JSON body without an
\* "error" key, a body that is not JSON
FailureResponses ==
    { JsonResponse(500, [error |-> [message |-> "Internal server error"]],
                   "{error: {message: Internal server error}}"),
      JsonResponse(429, [error |-> [message |-> "Rate limited"]],
                   "{error: {message: Rate limited}}"),
      JsonResponse(500, [type |-> "error"], "{type: error}"),
      RawResponse(500, "<html>Bad Gateway</html>") }

\* 200 answers carrying one of texts, or no content, or a body that is not JSON
OkResponses(texts) ==
    { JsonResponse(200, [content |-> t], t) : t \in texts }
        \cup { JsonResponse(200, [id |-> "msg_1"], "{id: msg_1}"),
               RawResponse(200, "<html>OK</html>") }

AnalysisResponses == Exceptions \cup FailureResponses \cup OkResponses(AnalysisTexts)

DescriptionResponses ==
    Exceptions \cup FailureResponses \cup OkResponses(DescriptionTexts)

---------------------------------------------------------------------------
(* AIService (src/ai_services.py) *)

Error(msg) == [error |-> msg]

\* An exception that leaves the method
Raise(exc) == [raised |-> exc]

IsError(result) == "error" \in DOMAIN result

\* httpx raise_for_status(): raises unless the status is 2xx
RaisesForStatus(status) == ~(status \in 200..299)

\* analyze_food_with_claude, given what the POST brought back
analyze_food_with_claude(resp) ==
    IF resp.kind = "exception"
    THEN Error(<<"Claude analysis failed", resp.exc>>)
    ELSE IF RaisesForStatus(resp.status_code)
    THEN Error(<<"Claude analysis failed", "HTTPStatusError",
                 ToString(resp.status_code)>>)
    ELSE IF ~resp.json
    THEN Error(<<"Claude analysis failed", "JSONDecodeError">>)
    ELSE IF "content" \notin DOMAIN resp.data
    THEN Error(<<"Claude analysis failed", "KeyError", "content">>)
    ELSE LET parsed == JsonLoads(resp.data.content)
         IN  IF parsed.ok THEN parsed.value
             ELSE Error(<<"Claude analysis failed", "JSONDecodeError">>)

\* error_data.get('error', {}).get('message', response.text)
ErrorMessage(resp) ==
    Get(Get(resp.data, "error", EmptyDict), "message", resp.text)

\* The direct image call answered with a status other than 200: error_msg is
\* built from the status and the error body, and the fallback starts
ImageStatusFailure(resp) ==
    IF ~resp.json
    THEN [next |-> "return",
          ret |-> Error(<<"Image analysis failed", "JSONDecodeError">>)]
    ELSE [next |-> "fallback",
          error_msg |-> <<"API request failed with status",
                          ToString(resp.status_code), ErrorMessage(resp)>>]

\* The direct image call answered 200: the parsed reply, or an error
ImageParse(resp) ==
    IF ~resp.json
    THEN [next |-> "return",
          ret |-> Error(<<"Image analysis failed", "JSONDecodeError">>)]
    ELSE IF "content" \notin DOMAIN resp.data
    THEN [next |-> "return",
          ret |-> Error(<<"Image analysis failed", "KeyError", "content">>)]
    ELSE LET parsed == JsonLoads(resp.data.content)
         IN  IF parsed.ok
             THEN [next |-> "return", ret |-> parsed.value]
             ELSE [next |-> "return",
                   ret |-> Error(<<"Failed to parse JSON response",
                                   "JSONDecodeError", "Response content",
                                   resp.data.content>>)]

\* ImageDirect, with a 200 reply that does not parse starting the fallback too
ImageDirect_fallback_on_parse(resp) ==
    IF resp.kind = "exception"
    THEN [next |-> "return",
          ret |-> Error(<<"Image analysis failed", resp.exc>>)]
    ELSE IF resp.status_code # 200 THEN ImageStatusFailure(resp)
    ELSE IF IsError(ImageParse(resp).ret)
    THEN [next |-> "fallback", error_msg |-> ImageParse(resp).ret.error]
    ELSE ImageParse(resp)

\* analyze_food_image up to the fallback: the direct image call's response
\* either decides the result or starts the fallback with error_msg
ImageDirect(resp) ==
    IF resp.kind = "exception"
    THEN [next |-> "return",
          ret |-> Error(<<"Image analysis failed", resp.exc>>)]
    ELSE IF resp.status_code # 200 THEN ImageStatusFailure(resp)
    ELSE ImageParse(resp)

\* ImageFallback, returning the description call's own failure
ImageFallback_desc_error(error_msg, resp) ==
    IF resp.kind = "exception"
    THEN [next |-> "return",
          ret |-> Error(<<"Fallback analysis failed", resp.exc>>)]
    ELSE IF resp.status_code = 200
    THEN IF resp.json /\ "content" \in DOMAIN resp.data
         THEN [next |-> "analyze", description |-> resp.data.content]
         ELSE [next |-> "return", ret |-> Error(error_msg)]
    ELSE [next |-> "return",
          ret |-> Error(<<"API request failed with status",
                          ToString(resp.status_code), resp.text>>)]

\* ImageFallback, analyzing an empty description when the description call
\* did not give one
ImageFallback_analyze_anyway(error_msg, resp) ==
    IF resp.kind = "http" /\ resp.status_code = 200 /\ resp.json
        /\ "content" \in DOMAIN resp.data
    THEN [next |-> "analyze", description |-> resp.data.content]
    ELSE [next |-> "analyze", description |-> ""]

\* The fallback of analyze_food_image: the description call's response either
\* gives the text to analyze or ends the method with the first call's error_msg
ImageFallback(error_msg, resp) ==
    IF resp.kind = "exception"
    THEN [next |-> "return", ret |-> Error(error_msg)]
    ELSE IF resp.status_code = 200
    THEN IF resp.json /\ "content" \in DOMAIN resp.data
         THEN [next |-> "analyze", description |-> resp.data.content]
         ELSE [next |-> "return", ret |-> Error(error_msg)]
    ELSE [next |-> "return", ret |-> Error(error_msg)]

\* FallbackReturn, falling through to the first error when the text analysis
\* returned an error
FallbackReturn_first_error(error_msg, text_result) ==
    IF IsError(text_result) THEN Error(error_msg) ELSE text_result

\* FallbackReturn, with the text analysis awaited and its result dropped
FallbackReturn_dropped(error_msg, text_result) == Error(error_msg)

\* return await self.analyze_food_with_claude(description)
FallbackReturn(error_msg, text_result) == text_result

NumericKeys == {"calories", "protein", "carbs", "fats"}

\* get_combined_analysis, given what analyze_food_with_claude returned
get_combined_analysis(result) ==
    IF IsError(result) THEN result
    ELSE IF ~(NumericKeys \subseteq DOMAIN result) THEN Raise("KeyError")
    ELSE [calories |-> result.calories,
          protein |-> result.protein,
          carbs |-> result.carbs,
          fats |-> result.fats,
          analysis |-> Get(result, "analysis", "No detailed analysis available")]

\* get_image_analysis, given what analyze_food_image returned
get_image_analysis(result) ==
    IF IsError(result) THEN result
    ELSE IF ~(NumericKeys \subseteq DOMAIN result) THEN Raise("KeyError")
    ELSE [description |-> Get(result, "description", "No description available"),
          calories |-> result.calories,
          protein |-> result.protein,
          carbs |-> result.carbs,
          fats |-> result.fats,
          analysis |-> Get(result, "analysis", "No detailed analysis available")]

---------------------------------------------------------------------------
(* Initial state: Database.__init__ on a new file, no update in flight *)

\* Places for the handler coroutines that exist at one time
Slots == {1, 2}

Idle == [pc |-> "idle"]

Init ==
    /\ users = {}
    /\ food_history = {}
    /\ seq = 0
    /\ clock = 0
    /\ last_add_user = [u \in Users |-> None]
    /\ lastOp = [op |-> "none"]
    /\ ai = [pc |-> "idle"]
    /\ hs = [s \in Slots |-> Idle]

\* A second passes
Tick ==
    /\ clock < MaxClock
    /\ clock' = clock + 1
    /\ UNCHANGED <<users, food_history, seq, last_add_user, lastOp, ai, hs>>

---------------------------------------------------------------------------
(* DbSpec: the methods of Database, called one after the other with any   *)
(* arguments; lastOp holds the call and its result until the caller has    *)
(* taken it                                                                *)

EntryIds == 1..(MaxEntries + 1)

db_add_user ==
    /\ lastOp.op = "none"
    /\ \E u \in Users, p \in Profiles :
        /\ users' = add_user(users, u, p.username, p.first_name, p.last_name)
        /\ last_add_user' = [last_add_user EXCEPT ![u] = p]
        /\ lastOp' = [op |-> "add_user", user_id |-> u, profile |-> p,
                      previous |-> last_add_user[u]]
        /\ UNCHANGED <<food_history, seq, clock, ai, hs>>

db_add_food_entry ==
    /\ lastOp.op = "none"
    /\ \E u \in Users, d \in FoodDatas :
        /\ seq < MaxEntries
        /\ food_history' = add_food_entry(food_history, seq, clock, u, d)
        /\ seq' = seq + 1
        /\ lastOp' = [op |-> "add_food_entry", user_id |-> u, food_data |-> d,
                      ret |-> None, before |-> food_history]
        /\ UNCHANGED <<users, clock, last_add_user, ai, hs>>

db_get_user_history ==
    /\ lastOp.op = "none"
    /\ \E u \in Users, k \in 0..MaxLimit :
        \E h \in get_user_history(food_history, u, k) :
            /\ lastOp' = [op |-> "get_user_history", user_id |-> u,
                          limit |-> k, ret |-> h]
            /\ UNCHANGED <<users, food_history, seq, clock, last_add_user, ai, hs>>

db_get_user_stats ==
    /\ lastOp.op = "none"
    /\ \E u \in Users :
        /\ lastOp' = [op |-> "get_user_stats", user_id |-> u,
                      ret |-> get_user_stats(food_history, u)]
        /\ UNCHANGED <<users, food_history, seq, clock, last_add_user, ai, hs>>

db_delete_entry ==
    /\ lastOp.op = "none"
    /\ \E u \in Users, id \in EntryIds :
        LET d == delete_entry(food_history, u, id)
        IN  /\ food_history' = d.rows
            /\ lastOp' = [op |-> "delete_entry", user_id |-> u, entry_id |-> id,
                          ret |-> d.ret, before |-> food_history]
            /\ UNCHANGED <<users, seq, clock, last_add_user, ai, hs>>

db_get_entry ==
    /\ lastOp.op = "none"
    /\ \E u \in Users, id \in EntryIds :
        /\ lastOp' = [op |-> "get_entry", user_id |-> u, entry_id |-> id,
                      ret |-> get_entry(food_history, u, id)]
        /\ UNCHANGED <<users, food_history, seq, clock, last_add_user, ai, hs>>

\* The caller has taken the returned value: the next call can be made
db_return ==
    /\ lastOp.op # "none"
    /\ lastOp' = [op |-> "none"]
    /\ UNCHANGED <<users, food_history, seq, clock, last_add_user, ai, hs>>

DbNext ==
    \/ Tick
    \/ db_add_user
    \/ db_add_food_entry
    \/ db_get_user_history
    \/ db_get_user_stats
    \/ db_delete_entry
    \/ db_get_entry
    \/ db_return

DbSpec == Init /\ [][DbNext]_vars

---------------------------------------------------------------------------
(* Claims about the store, under DbSpec *)

EntriesOf(F, u) == {r \in F : r.user_id = u}

NotFound(F, u, id) ==
    /\ get_entry(F, u, id) = None
    /\ delete_entry(F, u, id) = [rows |-> F, ret |-> FALSE]

\* C7: for an entry owned by another user, get_entry returns None and
\* delete_entry returns False and leaves the table as it was, as both do for
\* an id that no entry has.
C7_UserScopedAccess ==
    /\ \A u \in Users : \A id \in EntryIds :
           (\A e \in food_history : e.id = id => e.user_id # u)
               => NotFound(food_history, u, id)
    /\ (lastOp.op = "get_entry"
           /\ \A e \in food_history :
                  e.id = lastOp.entry_id => e.user_id # lastOp.user_id)
           => lastOp.ret = None
    /\ (lastOp.op = "delete_entry"
           /\ \A e \in lastOp.before :
                  e.id = lastOp.entry_id => e.user_id # lastOp.user_id)
           => /\ lastOp.ret = FALSE
              /\ food_history = lastOp.before

C7_Witness ==
    /\ lastOp.op = "delete_entry"
    /\ \E e \in lastOp.before :
           e.id = lastOp.entry_id /\ e.user_id # lastOp.user_id
    /\ \E e \in food_history : e.id = lastOp.entry_id

\* The rows in creation order, newest first: AUTOINCREMENT ids only grow
RECURSIVE NewestFirst(_)
NewestFirst(rows) ==
    IF rows = {} THEN <<>>
    ELSE LET r == CHOOSE x \in rows : \A y \in rows : y.id <= x.id
         IN  <<Columns(r)>> \o NewestFirst(rows \ {r})

\* C8: get_user_history(user, k) returns the min(k, n) entries of the user
\* created last, the newest first, also when entries share a created_at.
C8_HistoryNewestFirst ==
    lastOp.op = "get_user_history"
        => LET all == NewestFirst(EntriesOf(food_history, lastOp.user_id))
           IN  lastOp.ret = SubSeq(all, 1, Min(lastOp.limit, Len(all)))

ZeroStats ==
    [total_entries |-> 0, avg_calories |-> 0, avg_protein |-> 0,
     avg_carbs |-> 0, avg_fats |-> 0, total_calories |-> 0,
     total_protein |-> 0, total_carbs |-> 0, total_fats |-> 0]

\* C9: for a user without entries (none inserted, all deleted, or only other
\* users have some), get_user_stats returns total_entries 0 and every sum and
\* average 0, with every field present.
C9_ZeroStats ==
    /\ \A u \in Users :
           EntriesOf(food_history, u) = {}
               => get_user_stats(food_history, u) = ZeroStats
    /\ (lastOp.op = "get_user_stats"
           /\ EntriesOf(food_history, lastOp.user_id) = {})
           => lastOp.ret = ZeroStats

C9_Witness ==
    /\ lastOp.op = "get_user_stats"
    /\ EntriesOf(food_history, lastOp.user_id) = {}
    /\ food_history # {}
    /\ lastOp.ret = ZeroStats

\* C10: after any add_user calls the users table holds one row per user_id
\* passed, carrying the username, first name and last name of the last call
\* for that user_id.
C10_Upsert ==
    \A u \in Users :
        {r \in users : r.user_id = u} =
            IF last_add_user[u] = None THEN {}
            ELSE {[user_id |-> u,
                   username |-> last_add_user[u].username,
                   first_name |-> last_add_user[u].first_name,
                   last_name |-> last_add_user[u].last_name]}

C10_Witness ==
    /\ lastOp.op = "add_user"
    /\ lastOp.previous # None
    /\ lastOp.previous # lastOp.profile
    /\ \E r \in users :
           r.user_id = lastOp.user_id /\ r.first_name = lastOp.profile.first_name

\* C11: add_food_entry returns the id of the entry it inserted, and get_entry
\* called next with that id and the same user returns an entry whose calories,
\* protein, carbs and fats are the inserted values.
C11_InsertReturnsId ==
    lastOp.op = "add_food_entry"
        => /\ lastOp.ret # None
           /\ LET e == get_entry(food_history, lastOp.user_id, lastOp.ret)
              IN  /\ e # None
                  /\ \A k \in NumericKeys : e[k] = Get(lastOp.food_data, k, 0)

\* C12: add_food_entry for a user_id that has no row in users fails with a
\* constraint violation and leaves food_history as it was.
C12_InsertNeedsUser ==
    (lastOp.op = "add_food_entry"
        /\ ~\E r \in users : r.user_id = lastOp.user_id)
        => /\ lastOp.ret = Raise("IntegrityError")
           /\ food_history = lastOp.before

C19_EntryLifecycle ==
    [][\A e \in food_history :
          /\ \A f \in food_history' : f.id = e.id => f = e
          /\ e \notin food_history'
                => /\ lastOp'.op = "delete_entry"
                   /\ lastOp'.entry_id = e.id
                   /\ lastOp'.user_id = e.user_id]_vars

C19_Witness ==
    /\ lastOp.op = "add_user"
    /\ lastOp.previous # None
    /\ lastOp.previous # lastOp.profile
    /\ Cardinality(EntriesOf(food_history, lastOp.user_id)) = 2

\* The sum of a column over the entries of user u, taken id by id
RECURSIVE SumById(_, _, _, _)
SumById(F, u, col, n) ==
    IF n = 0 THEN 0
    ELSE LET hit == {e \in F : e.id = n /\ e.user_id = u}
         IN  (IF hit = {} THEN 0 ELSE (CHOOSE e \in hit : TRUE)[col])
                 + SumById(F, u, col, n - 1)

\* C20: get_user_stats(user) returns total_entries equal to the number of
\* entries the user owns now and each total equal to the sum of that column
\* over those entries (the gram totals in tenths), whatever other users own
\* and whatever was deleted.
C20_StatsMatchEntries ==
    lastOp.op = "get_user_stats"
        => LET u == lastOp.user_id
           IN  /\ lastOp.ret.total_entries
                    = Cardinality(EntriesOf(food_history, u))
               /\ lastOp.ret.total_calories
                    = SumById(food_history, u, "calories", seq)
               /\ lastOp.ret.total_protein
                    = 10 * SumById(food_history, u, "protein", seq)
               /\ lastOp.ret.total_carbs
                    = 10 * SumById(food_history, u, "carbs", seq)
               /\ lastOp.ret.total_fats
                    = 10 * SumById(food_history, u, "fats", seq)

C20_Witness ==
    /\ lastOp.op = "get_user_stats"
    /\ lastOp.ret.total_entries = 1
    /\ lastOp.ret.total_calories = 101
    /\ \E e \in food_history : e.user_id # lastOp.user_id

---------------------------------------------------------------------------
(* AiSpec: the methods of AIService, called by a client; the remote service *)
(* answers each POST in any way                                             *)

Images == {"photo_1.jpg", "photo_2.jpg"}

FoodDescriptions == {"2 eggs and toast"}

AiCall(method, pc, call) ==
    [pc |-> pc, method |-> method, calls |-> <<call>>, direct |-> None,
     error_msg |-> <<>>, desc |-> None, text_resp |-> None,
     text_ret |-> None, image_ret |-> None, out |-> None]

\* get_combined_analysis(food_description) is called: the text POST is sent
ai_call_text ==
    /\ ai.pc \in {"idle", "returned"}
    /\ \E d \in FoodDescriptions :
        ai' = AiCall("get_combined_analysis", "text_post",
                     [api |-> "text", food_description |-> d])
    /\ UNCHANGED <<users, food_history, seq, clock, last_add_user, lastOp, hs>>

\* get_image_analysis(image_data) is called: the direct image POST is sent
ai_call_image ==
    /\ ai.pc \in {"idle", "returned"}
    /\ \E img \in Images :
        ai' = AiCall("get_image_analysis", "image_post",
                     [api |-> "image", image |-> img])
    /\ UNCHANGED <<users, food_history, seq, clock, last_add_user, lastOp, hs>>

\* The direct image POST ends: the method returns, or sends the description POST
ai_image_response ==
    /\ ai.pc = "image_post"
    /\ \E r \in AnalysisResponses :
        LET d == ImageDirect(r)
        IN  IF d.next = "return"
            THEN ai' = [ai EXCEPT !.pc = "returned", !.direct = r,
                                  !.image_ret = d.ret,
                                  !.out = get_image_analysis(d.ret)]
            ELSE ai' = [ai EXCEPT !.pc = "desc_post", !.direct = r,
                                  !.error_msg = d.error_msg,
                                  !.calls = Append(@, [api |-> "describe",
                                                       image |-> ai.calls[1].image])]
    /\ UNCHANGED <<users, food_history, seq, clock, last_add_user, lastOp, hs>>

\* The description POST ends: the method returns the first error, or sends the
\* text POST of analyze_food_with_claude(description)
ai_desc_response ==
    /\ ai.pc = "desc_post"
    /\ \E r \in DescriptionResponses :
        LET f == ImageFallback(ai.error_msg, r)
        IN  IF f.next = "return"
            THEN ai' = [ai EXCEPT !.pc = "returned", !.desc = r,
                                  !.image_ret = f.ret,
                                  !.out = get_image_analysis(f.ret)]
            ELSE ai' = [ai EXCEPT !.pc = "text_post", !.desc = r,
                                  !.calls = Append(@, [api |-> "text",
                                                       food_description |-> f.description])]
    /\ UNCHANGED <<users, food_history, seq, clock, last_add_user, lastOp, hs>>

\* The text POST ends: analyze_food_with_claude returns, and with it the method
ai_text_response ==
    /\ ai.pc = "text_post"
    /\ \E r \in AnalysisResponses :
        LET t == analyze_food_with_claude(r)
            i == FallbackReturn(ai.error_msg, t)
        IN  IF ai.method = "get_combined_analysis"
            THEN ai' = [ai EXCEPT !.pc = "returned", !.text_resp = r,
                                  !.text_ret = t,
                                  !.out = get_combined_analysis(t)]
            ELSE ai' = [ai EXCEPT !.pc = "returned", !.text_resp = r,
                                  !.text_ret = t, !.image_ret = i,
                                  !.out = get_image_analysis(i)]
    /\ UNCHANGED <<users, food_history, seq, clock, last_add_user, lastOp, hs>>

AiNext ==
    \/ ai_call_text
    \/ ai_call_image
    \/ ai_image_response
    \/ ai_desc_response
    \/ ai_text_response

AiSpec == Init /\ [][AiNext]_vars

---------------------------------------------------------------------------
(* Claims about the inference client, under AiSpec *)

ImageCall == ai.pc # "idle" /\ ai.method = "get_image_analysis"

TextCall == ai.pc # "idle" /\ ai.method = "get_combined_analysis"

\* A 200 answer whose body, or whose content text, is not JSON
Unparseable200(r) ==
    /\ r.kind = "http"
    /\ r.status_code = 200
    /\ \/ ~r.json
       \/ "content" \in DOMAIN r.data /\ ~JsonLoads(r.data.content).ok

\* An answer with a status other than 200
StatusFailure(r) == r.kind = "http" /\ r.status_code # 200

\* A 200 answer that carries a content text
Succeeded(r) ==
    /\ r.kind = "http"
    /\ r.status_code = 200
    /\ r.json
    /\ "content" \in DOMAIN r.data

\* A 200 answer whose content text parses to an object without one of the
\* numeric keys
Incomplete(r) ==
    /\ Succeeded(r)
    /\ JsonLoads(r.data.content).ok
    /\ ~(NumericKeys \subseteq DOMAIN JsonLoads(r.data.content).value)

\* C1: when the direct image call answers 200 with a body that does not parse
\* as JSON, analyze_food_image returns an error and has sent neither the
\* description call nor a text-analysis call.
C1_NoFallbackOnParseFailure ==
    (ImageCall /\ ai.direct # None /\ Unparseable200(ai.direct))
        => /\ ai.pc = "returned"
           /\ IsError(ai.image_ret)
           /\ Len(ai.calls) = 1
           /\ ai.calls[1].api = "image"

C1_Witness ==
    /\ ImageCall
    /\ ai.pc = "returned"
    /\ ai.direct # None
    /\ Unparseable200(ai.direct)
    /\ ai.direct.json

\* C2: when the direct image call answers with a status other than 200 and the
\* description call then succeeds with text d, analyze_food_image calls
\* analyze_food_with_claude(d) and returns what that call returns, not the
\* error of the direct image call.
C2_FallbackReturnsTextAnalysis ==
    (ImageCall /\ ai.direct # None /\ StatusFailure(ai.direct)
        /\ ai.desc # None /\ Succeeded(ai.desc))
        => /\ Len(ai.calls) = 3
           /\ ai.calls[3] = [api |-> "text",
                             food_description |-> ai.desc.data.content]
           /\ (ai.pc = "returned"
                => /\ ai.image_ret = ai.text_ret
                   /\ ai.image_ret = analyze_food_with_claude(ai.text_resp)
                   /\ ai.image_ret # Error(ai.error_msg))

C2_Witness ==
    /\ ImageCall
    /\ ai.pc = "returned"
    /\ ai.direct # None
    /\ StatusFailure(ai.direct)
    /\ ai.direct.status_code = 500
    /\ ai.desc # None
    /\ Succeeded(ai.desc)
    /\ ai.desc.data.content = "a bowl of rice"
    /\ ~IsError(ai.image_ret)

\* C3: when the direct image call answers with a status other than 200 and the
\* description call fails too (a status other than 200, or an exception),
\* analyze_food_image returns the error built from the status and message of
\* the direct image call.
C3_DoubleFailureReturnsFirstError ==
    (ImageCall /\ ai.direct # None /\ StatusFailure(ai.direct)
        /\ ai.desc # None
        /\ (ai.desc.kind = "exception" \/ StatusFailure(ai.desc)))
        => /\ ai.pc = "returned"
           /\ Len(ai.calls) = 2
           /\ ai.image_ret =
                Error(<<"API request failed with status",
                        ToString(ai.direct.status_code),
                        ErrorMessage(ai.direct)>>)

C3_Witness ==
    /\ ImageCall
    /\ ai.pc = "returned"
    /\ ai.direct # None
    /\ StatusFailure(ai.direct)
    /\ ai.desc # None
    /\ StatusFailure(ai.desc)
    /\ ai.desc.status_code # ai.direct.status_code

\* C4: when the text call succeeds with a JSON object that lacks one of
\* calories, protein, carbs, fats, get_combined_analysis hands its caller an
\* error result: no record with a defaulted field, no exception.
C4_IncompleteReplyIsError ==
    (TextCall /\ ai.pc = "returned" /\ Incomplete(ai.text_resp))
        => IsError(ai.out)

\* C13 as claimed: a call of get_combined_analysis sends exactly one request,
\* and a call of get_image_analysis sends one or two, never three.
C13_OneOrTwoCalls ==
    /\ TextCall => Len(ai.calls) = 1
    /\ ImageCall => Len(ai.calls) \in {1, 2}

\* C13, amended: a call of get_combined_analysis sends exactly one request; a
\* call of get_image_analysis sends one, two or three and never a fourth: the
\* direct image request, a description request only after a direct answer
\* with a status other than 200, and a text-analysis request only after a
\* description answer that succeeded.
C13_AtMostThreeCalls ==
    /\ TextCall => (Len(ai.calls) = 1 /\ ai.calls[1].api = "text")
    /\ ImageCall
        => /\ Len(ai.calls) \in 1..3
           /\ ai.calls[1].api = "image"
           /\ (Len(ai.calls) >= 2
                 => (ai.calls[2].api = "describe" /\ StatusFailure(ai.direct)))
           /\ (Len(ai.calls) = 3
                 => (ai.calls[3].api = "text" /\ Succeeded(ai.desc)))

C13_Witness ==
    /\ ImageCall
    /\ ai.pc = "returned"
    /\ Len(ai.calls) = 3
    /\ ai.text_resp # None
    /\ ai.text_resp.kind = "http"

\* C15: when the direct image request raises (a timeout), analyze_food_image
\* goes on as after an answer with a status other than 200: the description
\* request is sent as the fallback.
C15_TimeoutTakesFallback ==
    (ImageCall /\ ai.direct # None /\ ai.direct.kind = "exception")
        => /\ Len(ai.calls) >= 2
           /\ ai.calls[2].api = "describe"

\* What the analysis method handed to get_combined_analysis / get_image_analysis
Analyzed == IF ai.method = "get_combined_analysis" THEN ai.text_ret ELSE ai.image_ret

\* C17: get_combined_analysis and get_image_analysis return an error result
\* as it is, and on success return the analysis "No detailed analysis
\* available" when the parsed reply has an analysis that is empty.
C17_EmptyAnalysisPlaceholder ==
    (ai.pc = "returned" /\ "raised" \notin DOMAIN ai.out)
        => /\ IsError(Analyzed) => ai.out = Analyzed
           /\ (~IsError(Analyzed) /\ "analysis" \in DOMAIN Analyzed
                  /\ Analyzed.analysis = "")
                 => ai.out.analysis = "No detailed analysis available"

\* C24: when the direct image request is answered with a status other than
\* 200, the description request succeeds and the text analysis of the
\* description returns an error, analyze_food_image returns that error, not
\* the error of the direct image request, and sends no fourth request.
C24_FallbackTextErrorReturned ==
    (ImageCall /\ ai.pc = "returned" /\ ai.direct # None
        /\ StatusFailure(ai.direct) /\ ai.desc # None /\ Succeeded(ai.desc)
        /\ IsError(analyze_food_with_claude(ai.text_resp)))
        => /\ IsError(ai.image_ret)
           /\ ai.image_ret = analyze_food_with_claude(ai.text_resp)
           /\ ai.image_ret.error # ai.error_msg
           /\ ai.out = ai.image_ret
           /\ Len(ai.calls) = 3

C24_Witness ==
    /\ ImageCall
    /\ ai.pc = "returned"
    /\ Len(ai.calls) = 3
    /\ ai.text_resp # None
    /\ ai.text_resp.kind = "exception"
    /\ ai.image_ret = Error(<<"Claude analysis failed", "ReadTimeout">>)

---------------------------------------------------------------------------
(* The bot (src/bot.py): updates and their handlers *)

MaxTextLen == 1000      \* len(text) > 1000 is rejected
HistoryLimit == 10      \* get_user_history(user_id, limit=10)

\* update.message.text with len(text)
TextMessages ==
    { [text |-> "- 2 eggs  and toast ", length |-> 20],
      [text |-> "a menu of 1000 characters", length |-> 1000],
      [text |-> "a menu of 1001 characters", length |-> 1001] }

\* The three re.sub calls and strip(): a leading bullet is removed, runs of
\* whitespace collapse to one space, the ends are trimmed
Preprocess(text) ==
    IF text = "- 2 eggs  and toast " THEN "2 eggs and toast" ELSE text

\* context.args of /delete
DeleteArgs == {<<>>, <<"abc">>} \cup {<<ToString(i)>> : i \in EntryIds}

\* int(context.args[0]): the number, or ValueError
ParseInt(str) ==
    IF \E i \in EntryIds : ToString(i) = str
    THEN [ok |-> TRUE, value |-> CHOOSE i \in EntryIds : ToString(i) = str]
    ELSE [ok |-> FALSE, value |-> 0]

\* analyze_food_image as a whole: the direct call, then the fallback's
\* description call and text analysis where the code reaches them
analyze_food_image(direct, desc, text) ==
    LET d == ImageDirect(direct)
    IN  IF d.next = "return" THEN d.ret
        ELSE LET f == ImageFallback(d.error_msg, desc)
             IN  IF f.next = "return" THEN f.ret
                 ELSE FallbackReturn(d.error_msg, analyze_food_with_claude(text))

\* The outbound calls analyze_food_image makes
ImageCalls(direct, desc) ==
    LET d == ImageDirect(direct)
    IN  IF d.next = "return" THEN 1
        ELSE IF ImageFallback(d.error_msg, desc).next = "return" THEN 2 ELSE 3

\* The answers the bot specification draws from: one of each kind
BotAnalysisResponses ==
    { Raised("ReadTimeout"),
      JsonResponse(500, [error |-> [message |-> "Internal server error"]],
                   "{error: {message: Internal server error}}"),
      JsonResponse(200, [content |-> ImgFull], ImgFull),
      JsonResponse(200, [content |-> NoCalories], NoCalories),
      JsonResponse(200, [content |-> ErrorWithRaw], ErrorWithRaw),
      JsonResponse(200, [content |-> Prose], Prose) }

BotDescriptionResponses ==
    { Raised("ReadTimeout"),
      RawResponse(500, "<html>Bad Gateway</html>"),
      JsonResponse(200, [content |-> "a bowl of rice"], "a bowl of rice") }

\* update.effective_user: the Telegram account behind a user id
effective_user(u) ==
    IF u = 1
    THEN [username |-> "ann", first_name |-> "Ann", last_name |-> "Lee"]
    ELSE [username |-> "bob", first_name |-> "Bob", last_name |-> "Ray"]

\* Application.builder().concurrent_updates(True): an update is processed
\* while the handlers of earlier ones are still waiting
CanDispatch_concurrent == TRUE

\* The application is built without concurrent_updates: an update is
\* processed when the handler of the one before has returned
CanDispatch == \A s \in Slots : hs[s].pc = "idle"

\* The handler of a new update takes the first place that holds no running
\* handler
FreeSlot(s) ==
    /\ hs[s].pc = "idle"
    /\ \A t \in Slots : t < s => hs[t].pc # "idle"

Handler(kind, user, pc, reply) ==
    [pc |-> pc, kind |-> kind, user |-> user, text |-> "", entry_id |-> 0,
     length |-> 0, before |-> food_history, inserted |-> {}, calls |-> 0,
     unparsed |-> "",
     outcome |-> "pending", reply |-> reply, replies |-> 0]

Message(mark, msg, data) == [mark |-> mark, msg |-> msg, data |-> data]

\* handle_text and handle_photo, saving whatever the analysis returned
SkipsSave_never(result) == FALSE

\* if "error" in result: reply and return, before add_food_entry
SkipsSave(result) == IsError(result)

\* start: add_user, then the welcome message
start(s) ==
    /\ CanDispatch
    /\ FreeSlot(s)
    /\ \E u \in Users :
        LET p == effective_user(u) IN
        /\ users' = add_user(users, u, p.username, p.first_name, p.last_name)
        /\ last_add_user' = [last_add_user EXCEPT ![u] = p]
        /\ hs' = [hs EXCEPT ![s] =
                    Handler("start", u, "reply",
                            Message("plain", "welcome", <<p.first_name>>))]
    /\ UNCHANGED <<food_history, seq, clock, lastOp, ai>>

help_command(s) ==
    /\ CanDispatch
    /\ FreeSlot(s)
    /\ \E u \in Users :
        hs' = [hs EXCEPT ![s] =
                 Handler("help", u, "reply", Message("plain", "help", <<>>))]
    /\ UNCHANGED <<users, food_history, seq, clock, last_add_user, lastOp, ai>>

stats_command(s) ==
    /\ CanDispatch
    /\ FreeSlot(s)
    /\ \E u \in Users :
        LET stats == get_user_stats(food_history, u)
        IN  hs' = [hs EXCEPT ![s] =
                     Handler("stats", u, "reply",
                             IF stats.total_entries = 0
                             THEN Message("plain", "nothing tracked", <<>>)
                             ELSE Message("plain", "statistics", <<stats>>))]
    /\ UNCHANGED <<users, food_history, seq, clock, last_add_user, lastOp, ai>>

history_command(s) ==
    /\ CanDispatch
    /\ FreeSlot(s)
    /\ \E u \in Users :
        \E history \in get_user_history(food_history, u, HistoryLimit) :
            hs' = [hs EXCEPT ![s] =
                     Handler("history", u, "reply",
                             IF history = <<>>
                             THEN Message("plain", "nothing tracked", <<>>)
                             ELSE Message("plain", "history", history))]
    /\ UNCHANGED <<users, food_history, seq, clock, last_add_user, lastOp, ai>>

\* delete_command: no await between get_entry and delete_entry
delete_command(s) ==
    /\ CanDispatch
    /\ FreeSlot(s)
    /\ \E u \in Users, args \in DeleteArgs :
        IF args = <<>>
        THEN /\ hs' = [hs EXCEPT ![s] =
                         Handler("delete", u, "reply",
                                 Message("plain", "usage", <<>>))]
             /\ UNCHANGED food_history
        ELSE IF ~ParseInt(args[1]).ok
        THEN /\ hs' = [hs EXCEPT ![s] =
                         Handler("delete", u, "reply",
                                 Message("plain", "not a number", <<>>))]
             /\ UNCHANGED food_history
        ELSE LET entry_id == ParseInt(args[1]).value
                 entry == get_entry(food_history, u, entry_id)
                 d == delete_entry(food_history, u, entry_id)
             IN  IF entry = None
                 THEN /\ hs' = [hs EXCEPT ![s] =
                                  [Handler("delete", u, "reply",
                                           Message("plain", "not found", <<>>))
                                     EXCEPT !.entry_id = entry_id]]
                      /\ UNCHANGED food_history
                 ELSE /\ food_history' = d.rows
                      /\ hs' = [hs EXCEPT ![s] =
                                  [Handler("delete", u, "reply",
                                           IF d.ret
                                           THEN Message("check", "deleted", <<entry>>)
                                           ELSE Message("cross", "delete failed", <<>>))
                                     EXCEPT !.entry_id = entry_id]]
    /\ UNCHANGED <<users, seq, clock, last_add_user, lastOp, ai>>

\* handle_photo up to the download of the photo
handle_photo(s) ==
    /\ CanDispatch
    /\ FreeSlot(s)
    /\ \E u \in Users :
        LET p == effective_user(u) IN
        /\ users' = add_user(users, u, p.username, p.first_name, p.last_name)
        /\ last_add_user' = [last_add_user EXCEPT ![u] = p]
        /\ hs' = [hs EXCEPT ![s] = Handler("photo", u, "download", None)]
    /\ UNCHANGED <<food_history, seq, clock, lastOp, ai>>

\* get_file and download_as_bytearray end: get_image_analysis is called
photo_downloaded(s) ==
    /\ hs[s].pc = "download"
    /\ hs' = [hs EXCEPT ![s].pc = "analyze"]
    /\ UNCHANGED <<users, food_history, seq, clock, last_add_user, lastOp, ai>>

\* The reply to an error result: the message of the handler and
\* result["error"]; handle_text adds result["raw_response"] when the result
\* has one that is not empty
FailureReply(kind, result) ==
    IF kind = "photo"
    THEN Message("cross", "couldn't analyze your food photo", result.error)
    ELSE IF Get(result, "raw_response", "") # ""
    THEN Message("cross", "couldn't analyze your food description",
                 result.error \o <<"Claude raw response", result.raw_response>>)
    ELSE Message("cross", "couldn't analyze your food description",
                 result.error)

\* The rest of a handler once the analysis has returned result (or raised):
\* the failure reply, or add_food_entry and the nutrition reply. unparsed is
\* the text of a 200 reply to the text request that did not parse, if any
AfterAnalysis(s, result, calls, unparsed) ==
    LET truth == IF "raised" \in DOMAIN result THEN "unhandled"
                 ELSE IF IsError(result) THEN "failed" ELSE "ok"
        h == [hs[s] EXCEPT !.calls = calls, !.outcome = truth,
                           !.unparsed = unparsed]
    IN  IF "raised" \in DOMAIN result
        THEN /\ hs' = [hs EXCEPT ![s] = [h EXCEPT !.pc = "done"]]
             /\ UNCHANGED <<food_history, seq>>
        ELSE IF SkipsSave(result)
        THEN /\ hs' = [hs EXCEPT ![s] =
                         [h EXCEPT !.pc = "reply",
                                   !.reply = FailureReply(hs[s].kind, result)]]
             /\ UNCHANGED <<food_history, seq>>
        ELSE /\ seq < MaxEntries
             /\ food_history' = add_food_entry(food_history, seq, clock,
                                               hs[s].user, result)
             /\ seq' = seq + 1
             /\ hs' = [hs EXCEPT ![s] =
                         [h EXCEPT !.pc = "reply",
                                   !.inserted = @ \cup {seq + 1},
                                   !.reply = Message("plain", "nutrition",
                                                     <<result>>)]]

\* handle_photo from the return of get_image_analysis to reply_text
photo_analyzed(s) ==
    /\ hs[s].pc = "analyze"
    /\ hs[s].kind = "photo"
    /\ \E direct \in BotAnalysisResponses, desc \in BotDescriptionResponses,
          text \in BotAnalysisResponses :
        AfterAnalysis(s,
                      get_image_analysis(analyze_food_image(direct, desc, text)),
                      ImageCalls(direct, desc),
                      "")
    /\ UNCHANGED <<users, clock, last_add_user, lastOp, ai>>

\* The length check with >= in place of >
TooLong_inclusive(length) == length >= MaxTextLen

\* if len(text) > 1000
TooLong(length) == length > MaxTextLen

\* handle_text up to the call of get_combined_analysis
handle_text(s) ==
    /\ CanDispatch
    /\ FreeSlot(s)
    /\ \E u \in Users, m \in TextMessages :
        LET p == effective_user(u) IN
        /\ users' = add_user(users, u, p.username, p.first_name, p.last_name)
        /\ last_add_user' = [last_add_user EXCEPT ![u] = p]
        /\ hs' = [hs EXCEPT ![s] =
                    IF TooLong(m.length)
                    THEN [Handler("text", u, "reply",
                                  Message("warning", "message is quite long", <<>>))
                            EXCEPT !.outcome = "rejected", !.length = m.length]
                    ELSE [Handler("text", u, "analyze", None)
                            EXCEPT !.text = Preprocess(m.text),
                                   !.length = m.length]]
    /\ UNCHANGED <<food_history, seq, clock, lastOp, ai>>

\* handle_text from the return of get_combined_analysis to reply_text
text_analyzed(s) ==
    /\ hs[s].pc = "analyze"
    /\ hs[s].kind = "text"
    /\ \E text \in BotAnalysisResponses :
        AfterAnalysis(s,
                      get_combined_analysis(analyze_food_with_claude(text)),
                      1,
                      IF Unparseable200(text) THEN text.text ELSE "")
    /\ UNCHANGED <<users, clock, last_add_user, lastOp, ai>>

\* reply_text ends, and with it the body of the handler
reply_sent(s) ==
    /\ hs[s].pc = "reply"
    /\ hs' = [hs EXCEPT ![s].pc = "done", ![s].replies = @ + 1,
                        ![s].outcome = IF @ = "pending" THEN "ok" ELSE @]
    /\ UNCHANGED <<users, food_history, seq, clock, last_add_user, lastOp, ai>>

\* The handler coroutine returns: its place is free for the next update
handler_returned(s) ==
    /\ hs[s].pc = "done"
    /\ hs' = [hs EXCEPT ![s] = Idle]
    /\ UNCHANGED <<users, food_history, seq, clock, last_add_user, lastOp, ai>>

Next ==
    \/ Tick
    \/ \E s \in Slots :
        \/ start(s)
        \/ help_command(s)
        \/ stats_command(s)
        \/ history_command(s)
        \/ delete_command(s)
        \/ handle_photo(s)
        \/ photo_downloaded(s)
        \/ photo_analyzed(s)
        \/ handle_text(s)
        \/ text_analyzed(s)
        \/ reply_sent(s)
        \/ handler_returned(s)

Spec == Init /\ [][Next]_vars

---------------------------------------------------------------------------
(* Claims about the handlers, under Spec *)

Ended(s) == hs[s].pc = "done" /\ hs[s].kind \in {"text", "photo"}

\* C5: a text or photo message whose handling ends in a failure (an error
\* result of the analysis, an exception out of it, a text over 1000
\* characters) leaves food_history as it was when the handler started.
C5_NoEntryOnFailure ==
    \A s \in Slots :
        (hs[s].pc \in {"reply", "done"} /\ hs[s].kind \in {"text", "photo"}
            /\ hs[s].outcome \in {"failed", "unhandled", "rejected"})
            => /\ food_history = hs[s].before
               /\ hs[s].inserted = {}

C5_Witness ==
    \E s \in Slots :
        /\ Ended(s)
        /\ hs[s].outcome = "failed"
        /\ hs[s].calls = 3
        /\ food_history # {}
        /\ food_history = hs[s].before

\* C6: every text or photo message gets exactly one reply from its handler,
\* and when the analysis failed that reply is a failure message.
C6_EveryFailureIsReplied ==
    \A s \in Slots :
        Ended(s)
            => /\ hs[s].replies = 1
               /\ (hs[s].outcome # "ok"
                      => hs[s].reply.mark \in {"cross", "warning"})

\* C16: when the text request is answered 200 with a body that does not parse,
\* handle_text replies with a failure message that includes the unparsed
\* reply text carried by the error result.
C16_MalformedReplyShowsRawText ==
    \A s \in Slots :
        (hs[s].pc \in {"reply", "done"} /\ hs[s].kind = "text"
            /\ hs[s].unparsed # "")
            => /\ hs[s].outcome = "failed"
               /\ hs[s].reply.mark = "cross"
               /\ \E i \in DOMAIN hs[s].reply.data :
                      hs[s].reply.data[i] = hs[s].unparsed

\* C18: every entry of food_history is owned by a user that has a row in users.
C18_EntriesHaveUsers ==
    \A e \in food_history : \E r \in users : r.user_id = e.user_id

C18_Witness ==
    /\ Cardinality(food_history) = 2
    /\ \E e, f \in food_history : e.user_id # f.user_id
    /\ \A e \in food_history : \E r \in users : r.user_id = e.user_id
    /\ \E s \in Slots : hs[s].pc = "done" /\ hs[s].kind = "delete"

\* C21: a text message of more than 1000 characters is answered with the
\* warning by a handler that sends no request to the inference service and
\* inserts no entry; a message of at most 1000 characters goes on to
\* get_combined_analysis.
C21_LongTextRejected ==
    \A s \in Slots :
        (hs[s].pc # "idle" /\ hs[s].kind = "text")
            => /\ hs[s].length > 1000
                  => /\ hs[s].pc \in {"reply", "done"}
                     /\ hs[s].outcome = "rejected"
                     /\ hs[s].reply.mark = "warning"
                     /\ hs[s].calls = 0
                     /\ hs[s].inserted = {}
                     /\ food_history = hs[s].before
               /\ hs[s].length <= 1000
                  => (hs[s].pc = "analyze" \/ hs[s].calls = 1)

C21_Witness ==
    \E s \in Slots :
        /\ hs[s].pc = "done"
        /\ hs[s].kind = "text"
        /\ hs[s].length = 1001
        /\ hs[s].replies = 1
        /\ food_history # {}

InFlight(s) == hs[s].pc \notin {"idle", "done"}

\* C22 as claimed: nothing serializes two requests of one user: while the
\* handler of a user's photo message waits for the download or the analysis,
\* and a place for another handler is free, a second photo message of that
\* user can be dispatched (and so can have its entry inserted first).
C22_NotSerialized ==
    \A s \in Slots :
        (hs[s].pc \in {"download", "analyze"} /\ hs[s].kind = "photo"
            /\ \E t \in Slots : ~InFlight(t))
            => ENABLED (\E t \in Slots :
                          handle_photo(t) /\ hs'[t].user = hs[s].user)

\* C22, amended: updates are handled one at a time, so a user's two photo
\* messages are never in flight together: when the analysis of a photo
\* message succeeds its entry is persisted, nothing else was inserted or
\* removed since the message was dispatched, and the entry comes after every
\* entry persisted before the dispatch (entries are inserted in dispatch
\* order, none lost or overwritten).
C22_OneUpdateAtATime ==
    /\ \A s, t \in Slots : s # t => (~InFlight(s) \/ ~InFlight(t))
    /\ \A s \in Slots :
        (hs[s].pc \in {"reply", "done"} /\ hs[s].kind = "photo"
            /\ hs[s].outcome = "ok")
            => \E e \in food_history :
                  /\ e.user_id = hs[s].user
                  /\ hs[s].inserted = {e.id}
                  /\ e \notin hs[s].before
                  /\ food_history = hs[s].before \cup {e}
                  /\ \A f \in hs[s].before : f.id < e.id

C22_Witness ==
    \E s \in Slots :
        /\ hs[s].pc = "done"
        /\ hs[s].kind = "photo"
        /\ hs[s].outcome = "ok"
        /\ Cardinality(food_history) = 2
        /\ \A e \in food_history :
              e.user_id = hs[s].user /\ e.description # ""

===========================================================================
